---- MODULE Spec2Model ----
(***************************************************************************)
(* Model of similitud_codigos_reporte.py: the three similarity metrics    *)
(* (similitud_coseno, similitud_jaccard, distancia_levenshtein /          *)
(* ratio_levenshtein) and the pairwise comparison of comparar_archivos.   *)
(*                                                                         *)
(* Python floats are IEEE-754 binary64.  A float is modelled as the exact *)
(* value m * 2^e with m a 53-bit mantissa, kept as a little-endian        *)
(* sequence of 14-bit limbs because the checker's integers are 32 bits    *)
(* wide; every float operation rounds to nearest, ties to even, as the    *)
(* hardware does.  All values that occur lie far from the subnormal and   *)
(* overflow ranges, so exponents are unbounded integers.                  *)
(***************************************************************************)
EXTENDS Integers, Sequences, FiniteSets, TLC

\* ---------------------------------------------------------------------
\* Bounds
\* ---------------------------------------------------------------------
MaxLen == 3
MaxFiles == 3
MaxRes == 3
MaxPiezas == 3

\* ---------------------------------------------------------------------
\* Natural numbers of arbitrary size: little-endian limbs, no leading zero
\* ---------------------------------------------------------------------
LimbBits == 14
MantBits == 53

RECURSIVE Pow2(_)
Pow2(k) == IF k = 0 THEN 1 ELSE 2 * Pow2(k - 1)

Base == Pow2(LimbBits)

Max2(x, y) == IF x >= y THEN x ELSE y

RECURSIVE BTrim(_)
BTrim(x) == IF x = <<>> THEN <<>>
            ELSE IF x[Len(x)] = 0 THEN BTrim(SubSeq(x, 1, Len(x) - 1)) ELSE x

BFromInt(n) == BTrim(<<n % Base, (n \div Base) % Base, n \div (Base * Base)>>)

Limb(x, i) == IF i <= Len(x) THEN x[i] ELSE 0

RECURSIVE BAddC(_, _, _, _)
BAddC(x, y, i, c) ==
    IF i > Len(x) /\ i > Len(y)
    THEN IF c = 0 THEN <<>> ELSE <<c>>
    ELSE LET s == Limb(x, i) + Limb(y, i) + c
         IN  <<s % Base>> \o BAddC(x, y, i + 1, s \div Base)
BAdd(x, y) == BAddC(x, y, 1, 0)

RECURSIVE BSubC(_, _, _, _)
BSubC(x, y, i, c) ==
    IF i > Len(x) THEN <<>>
    ELSE LET s == Limb(x, i) - Limb(y, i) - c
         IN  <<s % Base>> \o BSubC(x, y, i + 1, IF s < 0 THEN 1 ELSE 0)
BSub(x, y) == BTrim(BSubC(x, y, 1, 0))

RECURSIVE BCmpFrom(_, _, _)
BCmpFrom(x, y, i) ==
    IF i = 0 THEN 0
    ELSE IF x[i] < y[i] THEN -1
    ELSE IF x[i] > y[i] THEN 1
    ELSE BCmpFrom(x, y, i - 1)
BCmp(x, y) == IF Len(x) < Len(y) THEN -1
              ELSE IF Len(x) > Len(y) THEN 1
              ELSE BCmpFrom(x, y, Len(x))

RECURSIVE BMulSmallC(_, _, _, _)
BMulSmallC(x, k, i, c) ==
    IF i > Len(x)
    THEN IF c = 0 THEN <<>> ELSE <<c>>
    ELSE LET s == x[i] * k + c
         IN  <<s % Base>> \o BMulSmallC(x, k, i + 1, s \div Base)
BMulSmall(x, k) == IF k = 0 THEN <<>> ELSE BMulSmallC(x, k, 1, 0)

RECURSIVE BMul(_, _)
BMul(x, y) == IF y = <<>> \/ x = <<>> THEN <<>>
              ELSE BAdd(BMulSmall(x, y[1]), 
                        LET r == BMul(x, Tail(y)) IN IF r = <<>> THEN <<>> ELSE <<0>> \o r)

RECURSIVE BitLenInt(_)
BitLenInt(n) == IF n = 0 THEN 0 ELSE 1 + BitLenInt(n \div 2)

BBitLen(x) == IF x = <<>> THEN 0 ELSE LimbBits * (Len(x) - 1) + BitLenInt(x[Len(x)])

Zeros(n) == [i \in 1..n |-> 0]
BShl(x, k) == IF x = <<>> THEN <<>>
              ELSE Zeros(k \div LimbBits) \o BMulSmall(x, Pow2(k % LimbBits))

\* floor(x / 2^k)
BShr(x, k) ==
    LET d == k \div LimbBits
        r == k % LimbBits
        y == IF d >= Len(x) THEN <<>> ELSE SubSeq(x, d + 1, Len(x))
        p == Pow2(r)
        q == Pow2(LimbBits - r)
    IN  BTrim([i \in 1..Len(y) |-> (y[i] \div p) + (Limb(y, i + 1) % p) * q])

BBit(x, k) == (Limb(x, (k \div LimbBits) + 1) \div Pow2(k % LimbBits)) % 2
\* some bit below position k is set
BLowNonzero(x, k) == BShl(BShr(x, k), k) # x


\* ---- floats: value m * 2^e, m a 53-bit bignum, or zero ----
FZero == [m |-> <<>>, e |-> 0]

\* round N * 2^e (plus, when sticky, a nonzero amount below one unit of N) to nearest, ties to even
FRound(N, e, sticky) ==
    LET L == BBitLen(N) IN
    IF N = <<>> THEN FZero
    ELSE IF L <= MantBits THEN [m |-> BShl(N, MantBits - L), e |-> e - (MantBits - L)]
    ELSE LET sh   == L - MantBits
             q    == BShr(N, sh)
             half == BBit(N, sh - 1) = 1
             rest == sticky \/ BLowNonzero(N, sh - 1)
             up   == half /\ (rest \/ BBit(q, 0) = 1)
             q1   == IF up THEN BAdd(q, <<1>>) ELSE q
         IN  IF BBitLen(q1) > MantBits
             THEN [m |-> BShr(q1, 1), e |-> e + sh + 1]
             ELSE [m |-> q1, e |-> e + sh]

FFromInt(n) == FRound(BFromInt(n), 0, FALSE)

FMul(x, y) == IF x = FZero \/ y = FZero THEN FZero
              ELSE FRound(BMul(x.m, y.m), x.e + y.e, FALSE)

GuardBits == 3

\* quotient and root bits computed before rounding; a whole number of limbs
QBits == MantBits + GuardBits

\* the value of a number that fits in an integer
BToInt(x) == Limb(x, 1) + Base * (Limb(x, 2) + Base * Limb(x, 3))

\* the largest g2 <= g with d * g2 <= r
RECURSIVE DivFit(_, _, _)
DivFit(r, d, g) == IF BCmp(BMulSmall(d, g), r) <= 0 THEN g ELSE DivFit(r, d, g - 1)

\* long division, one limb of quotient: digit and remainder of (r * Base) / d for r < d,
\* the digit estimated from the leading bits and then corrected
DivDigit(r, d) ==
    LET r1  == IF r = <<>> THEN <<>> ELSE <<0>> \o r
        sh  == Max2(0, BBitLen(d) - (LimbBits + 1))
        est == BToInt(BShr(r1, sh)) \div BToInt(BShr(d, sh))
        g   == DivFit(r1, d, IF est + 1 < Base THEN est + 1 ELSE Base - 1)
    IN  <<g, BSub(r1, BMulSmall(d, g))>>

\* n limbs of quotient (least significant first) and the final remainder
RECURSIVE DivDigits(_, _, _)
DivDigits(r, d, n) ==
    IF n = 0 THEN <<<<>>, r>>
    ELSE LET dg   == DivDigit(r, d)
             rest == DivDigits(dg[2], d, n - 1)
         IN  <<Append(rest[1], dg[1]), rest[2]>>

\* the outcome of dividing by zero: Python raises ZeroDivisionError
ZeroDivisionError == [m |-> <<>>, e |-> 1]

FDiv(x, y) ==
    IF y = FZero THEN ZeroDivisionError
    ELSE IF x = FZero THEN FZero
    ELSE LET ge == BCmp(x.m, y.m) >= 0
             qr == DivDigits(IF ge THEN BSub(x.m, y.m) ELSE x.m, y.m, QBits \div LimbBits)
             q  == BTrim(IF ge THEN Append(qr[1], 1) ELSE qr[1])
         IN  FRound(q, x.e - y.e - QBits, qr[2] # <<>>)

ISqrt(n) == CHOOSE r \in 0..n : r * r <= n /\ (r + 1) * (r + 1) > n

HalfBits == LimbBits \div 2
HalfBase == Pow2(HalfBits)

\* the largest g2 <= g with (D + g2) * g2 <= rem
RECURSIVE SqrtFit(_, _, _)
SqrtFit(D, rem, g) ==
    IF BCmp(BMulSmall(BAdd(D, BFromInt(g)), g), rem) <= 0 THEN g ELSE SqrtFit(D, rem, g - 1)

\* digit-by-digit square root, HalfBits bits at a time: from root and remainder of
\* the digits so far to root and remainder with one more digit (the radicand's
\* further digits are zero)
SqrtDigit(root, rem) ==
    LET rem1 == IF rem = <<>> THEN <<>> ELSE <<0>> \o rem
        D    == BMulSmall(root, 2 * HalfBase)
        sh   == Max2(0, BBitLen(D) - (LimbBits + 1))
        est  == BToInt(BShr(rem1, sh)) \div BToInt(BShr(D, sh))
        g    == SqrtFit(D, rem1, IF est + 1 < HalfBase THEN est + 1 ELSE HalfBase - 1)
    IN  <<BAdd(BMulSmall(root, HalfBase), BFromInt(g)),
          BSub(rem1, BMulSmall(BAdd(D, BFromInt(g)), g))>>

RECURSIVE SqrtDigits(_, _, _)
SqrtDigits(root, rem, n) ==
    IF n = 0 THEN <<root, rem>>
    ELSE LET st == SqrtDigit(root, rem)
         IN  SqrtDigits(st[1], st[2], n - 1)

\* math.sqrt of a positive integer, correctly rounded
FSqrtInt(n) ==
    IF n = 0 THEN FZero
    ELSE LET s  == ISqrt(n)
             rr == SqrtDigits(BFromInt(s), BFromInt(n - s * s), QBits \div HalfBits)
         IN  FRound(rr[1], 0 - QBits, rr[2] # <<>>)

FLe(x, y) == IF x = FZero THEN TRUE
             ELSE IF y = FZero THEN FALSE
             ELSE IF x.e # y.e THEN x.e < y.e
             ELSE BCmp(x.m, y.m) <= 0

FLt(x, y) == FLe(x, y) /\ x # y

\* the values of the model are the floats >= 0; a difference below zero is
\* recorded as Negativo, whatever its magnitude
Negativo == [m |-> <<>>, e |-> -1]

FSub(x, y) ==
    IF y = FZero THEN x
    ELSE IF FLt(x, y) THEN Negativo
    ELSE LET e == IF x.e < y.e THEN x.e ELSE y.e
             N == BSub(BShl(x.m, x.e - e), BShl(y.m, y.e - e))
         IN  FRound(N, e, FALSE)

FAdd(x, y) ==
    IF y = FZero THEN x
    ELSE IF x = FZero THEN y
    ELSE LET e == IF x.e < y.e THEN x.e ELSE y.e
             N == BAdd(BShl(x.m, x.e - e), BShl(y.m, y.e - e))
         IN  FRound(N, e, FALSE)

FOne == FFromInt(1)

FMax(x, y) == IF FLe(x, y) THEN y ELSE x
FMin(x, y) == IF FLe(x, y) THEN x ELSE y

\* ---------------------------------------------------------------------
\* Sequences and sets
\* ---------------------------------------------------------------------
SeqsUpTo(S, n) == UNION {[1..k -> S] : k \in 0..n}

Range(seq) == {seq[k] : k \in 1..Len(seq)}

RECURSIVE SumOver(_, _)
SumOver(S, f) == IF S = {} THEN 0
                 ELSE LET x == CHOOSE y \in S : TRUE
                      IN  f[x] + SumOver(S \ {x}, f)

Min3(x, y, z) == IF x <= y /\ x <= z THEN x ELSE IF y <= z THEN y ELSE z

\* ---------------------------------------------------------------------
\* similitud_coseno
\* ---------------------------------------------------------------------
\* collections.Counter: one key per distinct token, counted one element at a time
RECURSIVE Counter(_)
Counter(tokens) ==
    IF tokens = <<>> THEN <<>>
    ELSE LET c == Counter(SubSeq(tokens, 1, Len(tokens) - 1))
             t == tokens[Len(tokens)]
         IN  IF t \in DOMAIN c
             THEN [c EXCEPT ![t] = @ + 1]
             ELSE [x \in DOMAIN c \cup {t} |-> IF x = t THEN 1 ELSE c[x]]

\* the denominator squares the first norm instead of multiplying the two
similitud_coseno_den1(tokens1, tokens2) ==
    IF tokens1 = <<>> \/ tokens2 = <<>> THEN FZero
    ELSE LET c1    == Counter(tokens1)
             c2    == Counter(tokens2)
             inter == DOMAIN c1 \cap DOMAIN c2
         IN  IF inter = {} THEN FZero
             ELSE LET num  == SumOver(inter, [x \in inter |-> c1[x] * c2[x]])
                      den1 == FSqrtInt(SumOver(DOMAIN c1, [x \in DOMAIN c1 |-> c1[x] * c1[x]]))
                      den  == FMul(den1, den1)
                  IN  IF den # FZero THEN FDiv(FFromInt(num), den) ELSE FZero

\* the norms are taken over the shared tokens only
similitud_coseno_inter(tokens1, tokens2) ==
    IF tokens1 = <<>> \/ tokens2 = <<>> THEN FZero
    ELSE LET c1    == Counter(tokens1)
             c2    == Counter(tokens2)
             inter == DOMAIN c1 \cap DOMAIN c2
         IN  IF inter = {} THEN FZero
             ELSE LET num  == SumOver(inter, [x \in inter |-> c1[x] * c2[x]])
                      den1 == FSqrtInt(SumOver(inter, [x \in inter |-> c1[x] * c1[x]]))
                      den2 == FSqrtInt(SumOver(inter, [x \in inter |-> c2[x] * c2[x]]))
                      den  == FMul(den1, den2)
                  IN  IF den # FZero THEN FDiv(FFromInt(num), den) ELSE FZero

\* line 123-158
similitud_coseno(tokens1, tokens2) ==
    IF tokens1 = <<>> \/ tokens2 = <<>> THEN FZero
    ELSE LET c1    == Counter(tokens1)
             c2    == Counter(tokens2)
             inter == DOMAIN c1 \cap DOMAIN c2
         IN  IF inter = {} THEN FZero
             ELSE LET num  == SumOver(inter, [x \in inter |-> c1[x] * c2[x]])
                      den1 == FSqrtInt(SumOver(DOMAIN c1, [x \in DOMAIN c1 |-> c1[x] * c1[x]]))
                      den2 == FSqrtInt(SumOver(DOMAIN c2, [x \in DOMAIN c2 |-> c2[x] * c2[x]]))
                      den  == FMul(den1, den2)
                  IN  IF den # FZero THEN FDiv(FFromInt(num), den) ELSE FZero

\* ---------------------------------------------------------------------
\* similitud_jaccard
\* ---------------------------------------------------------------------
\* neither the guard on empty operands nor the one on an empty union
similitud_jaccard_sin_guardas(tokens1, tokens2) ==
    LET set1  == Range(tokens1)
        set2  == Range(tokens2)
        inter == Cardinality(set1 \cap set2)
        union == Cardinality(set1 \cup set2)
    IN  FDiv(FFromInt(inter), FFromInt(union))

\* line 164-192
similitud_jaccard(tokens1, tokens2) ==
    IF tokens1 = <<>> \/ tokens2 = <<>> THEN FZero
    ELSE LET set1  == Range(tokens1)
             set2  == Range(tokens2)
             inter == Cardinality(set1 \cap set2)
             union == Cardinality(set1 \cup set2)
         IN  IF union # 0 THEN FDiv(FFromInt(inter), FFromInt(union)) ELSE FZero

\* ---------------------------------------------------------------------
\* distancia_levenshtein
\* ---------------------------------------------------------------------
\* a substitution is free
LevCelda_gratis(prev, curr, ca, cb, j) ==
    LET insert_cost     == prev[j + 1] + 1
        delete_cost     == curr[j] + 1
        substitute_cost == prev[j]
    IN  Min3(insert_cost, delete_cost, substitute_cost)

\* a substitution is charged as a deletion and an insertion
LevCelda_doble(prev, curr, ca, cb, j) ==
    LET insert_cost     == prev[j + 1] + 1
        delete_cost     == curr[j] + 1
        substitute_cost == prev[j] + (IF ca = cb THEN 0 ELSE 2)
    IN  Min3(insert_cost, delete_cost, substitute_cost)

\* one pass of the inner loop body: the cell appended to curr_row for
\* character ca of a (outer) and character b[j] (1-based j)
LevCelda(prev, curr, ca, cb, j) ==
    LET insert_cost     == prev[j + 1] + 1
        delete_cost     == curr[j] + 1
        substitute_cost == prev[j] + (IF ca = cb THEN 0 ELSE 1)
    IN  Min3(insert_cost, delete_cost, substitute_cost)

\* the whole inner loop for one character of a
RECURSIVE LevFila(_, _, _, _)
LevFila(prev, curr, ca, b) ==
    IF Len(curr) > Len(b) THEN curr
    ELSE LevFila(prev, Append(curr, LevCelda(prev, curr, ca, b[Len(curr)], Len(curr))), ca, b)

\* the outer loop from row i0 (0-based, as enumerate counts) on; a row is never
\* empty, and the test of prev has each row computed before the next is begun
RECURSIVE LevFilas(_, _, _, _)
LevFilas(prev, a, b, i0) ==
    IF i0 >= Len(a) \/ prev = <<>> THEN prev
    ELSE LevFilas(LevFila(prev, <<i0 + 1>>, a[i0 + 1], b), a, b, i0 + 1)

\* the row has one cell more than range(len(b) + 1)
RangeRow_ancha(n) == [k \in 1..(n + 2) |-> k - 1]

RangeRow(n) == [k \in 1..(n + 1) |-> k - 1]

RECURSIVE distancia_levenshtein(_, _)
distancia_levenshtein(a, b) ==
    IF Len(a) < Len(b) THEN distancia_levenshtein(b, a)
    ELSE IF Len(b) = 0 THEN Len(a)
    ELSE LET last == LevFilas(RangeRow(Len(b)), a, b, 0)
         IN  last[Len(last)]

\* the case of two empty strings falls into the one of an empty string
ratio_levenshtein_sin_vacios(texto1, texto2) ==
    IF texto1 = <<>> \/ texto2 = <<>> THEN FZero
    ELSE LET dist    == distancia_levenshtein(texto1, texto2)
             max_len == Max2(Len(texto1), Len(texto2))
         IN  IF max_len > 0
             THEN FSub(FOne, FDiv(FFromInt(dist), FFromInt(max_len)))
             ELSE FZero

\* line 247-267
ratio_levenshtein(texto1, texto2) ==
    IF texto1 = <<>> /\ texto2 = <<>> THEN FOne
    ELSE IF texto1 = <<>> \/ texto2 = <<>> THEN FZero
    ELSE LET dist    == distancia_levenshtein(texto1, texto2)
             max_len == Max2(Len(texto1), Len(texto2))
         IN  IF max_len > 0
             THEN FSub(FOne, FDiv(FFromInt(dist), FFromInt(max_len)))
             ELSE FZero

\* ---------------------------------------------------------------------
\* limpiar_codigo
\* ---------------------------------------------------------------------
\* A text is a sequence of characters, a token a sequence of characters.
AbcMin == <<"a", "b", "c", "d", "e", "f", "g", "h", "i", "j", "k", "l", "m">> \o
          <<"n", "o", "p", "q", "r", "s", "t", "u", "v", "w", "x", "y", "z">>
AbcMay == <<"A", "B", "C", "D", "E", "F", "G", "H", "I", "J", "K", "L", "M">> \o
          <<"N", "O", "P", "Q", "R", "S", "T", "U", "V", "W", "X", "Y", "Z">>
Digitos == {"0", "1", "2", "3", "4", "5", "6", "7", "8", "9"}
Letras == Range(AbcMin) \cup Range(AbcMay)

\* \s: the white space of the texts
Espacios == {" ", "\n", "\t"}

\* line 101: the symbols of [=+\-*/<>:.,(){}[\];]
Simbolos == {"=", "+", "-", "*", "/", "<", ">", ":", ".", ",", "(", ")", "{", "}", "[", "]", ";"}

\* str.lower and str.upper, character by character
LowerC(c) == IF c \in Range(AbcMay) THEN AbcMin[CHOOSE k \in 1..26 : AbcMay[k] = c] ELSE c
UpperC(c) == IF c \in Range(AbcMin) THEN AbcMay[CHOOSE k \in 1..26 : AbcMin[k] = c] ELSE c
Lower(s) == [k \in 1..Len(s) |-> LowerC(s[k])]
Upper(s) == [k \in 1..Len(s) |-> UpperC(s[k])]

\* line 47-51
PYTHON_KEYWORDS ==
    {<<"d", "e", "f">>, <<"c", "l", "a", "s", "s">>, <<"i", "f">>, <<"e", "l", "s", "e">>,
     <<"e", "l", "i", "f">>, <<"f", "o", "r">>, <<"w", "h", "i", "l", "e">>,
     <<"t", "r", "y">>, <<"e", "x", "c", "e", "p", "t">>,
     <<"f", "i", "n", "a", "l", "l", "y">>, <<"w", "i", "t", "h">>,
     <<"i", "m", "p", "o", "r", "t">>, <<"f", "r", "o", "m">>,
     <<"r", "e", "t", "u", "r", "n">>, <<"y", "i", "e", "l", "d">>,
     <<"b", "r", "e", "a", "k">>, <<"c", "o", "n", "t", "i", "n", "u", "e">>,
     <<"p", "a", "s", "s">>, <<"a", "n", "d">>, <<"o", "r">>, <<"n", "o", "t">>, <<"i", "n">>,
     <<"i", "s">>, <<"l", "a", "m", "b", "d", "a">>}

\* str.strip
RECURSIVE LStrip(_)
LStrip(s) == IF s # <<>> /\ Head(s) \in Espacios THEN LStrip(Tail(s)) ELSE s
RECURSIVE RStrip(_)
RStrip(s) == IF s # <<>> /\ s[Len(s)] \in Espacios THEN RStrip(SubSeq(s, 1, Len(s) - 1)) ELSE s
Strip(s) == RStrip(LStrip(s))

\* s has the characters of d from position k on
EmpiezaEn(s, d, k) == k + Len(d) - 1 <= Len(s) /\ SubSeq(s, k, k + Len(d) - 1) = d

\* the first position >= k where d starts in s, 0 if there is none
RECURSIVE Buscar(_, _, _)
Buscar(s, d, k) ==
    IF k + Len(d) - 1 > Len(s) THEN 0
    ELSE IF EmpiezaEn(s, d, k) THEN k
    ELSE Buscar(s, d, k + 1)

\* re.sub(abre [\s\S]*? cierra, repl, s) from position k on: every leftmost
\* match, which runs from abre to the first cierra after it, becomes repl
RECURSIVE SubEntre(_, _, _, _, _)
SubEntre(s, abre, cierra, repl, k) ==
    IF k > Len(s) THEN <<>>
    ELSE LET fin == IF EmpiezaEn(s, abre, k) THEN Buscar(s, cierra, k + Len(abre)) ELSE 0
         IN  IF fin > 0
             THEN repl \o SubEntre(s, abre, cierra, repl, fin + Len(cierra))
             ELSE <<s[k]>> \o SubEntre(s, abre, cierra, repl, k + 1)

\* re.sub(marca .*, '', s) from position k on: . matches all but the line break
RECURSIVE SubHastaFinDeLinea(_, _, _)
SubHastaFinDeLinea(s, marca, k) ==
    IF k > Len(s) THEN <<>>
    ELSE IF EmpiezaEn(s, marca, k)
         THEN LET nl == Buscar(s, <<"\n">>, k)
              IN  IF nl = 0 THEN <<>> ELSE SubHastaFinDeLinea(s, marca, nl)
         ELSE <<s[k]>> \o SubHastaFinDeLinea(s, marca, k + 1)

\* re.sub(r'\s+', ' ', s)
RECURSIVE SubEspacios(_)
SubEspacios(s) ==
    IF s = <<>> THEN <<>>
    ELSE IF Head(s) \in Espacios THEN <<" ">> \o SubEspacios(LStrip(s))
    ELSE <<Head(s)>> \o SubEspacios(Tail(s))

\* the length of the longest prefix of s from position k on with characters of C
RECURSIVE Tramo(_, _, _)
Tramo(s, C, k) == IF k <= Len(s) /\ s[k] \in C THEN 1 + Tramo(s, C, k + 1) ELSE 0

\* the pattern lacks the class of the symbols
RECURSIVE FindTokens_sin_simbolos(_, _)
FindTokens_sin_simbolos(s, k) ==
    IF k > Len(s) THEN <<>>
    ELSE LET n == IF s[k] \in Letras \cup {"_"} THEN Tramo(s, Letras \cup Digitos \cup {"_"}, k)
                  ELSE IF s[k] \in Digitos THEN Tramo(s, Digitos, k)
                  ELSE 0
         IN  IF n = 0 THEN FindTokens_sin_simbolos(s, k + 1)
             ELSE <<SubSeq(s, k, k + n - 1)>> \o FindTokens_sin_simbolos(s, k + n)

\* line 101: re.findall(r'[A-Za-z_][A-Za-z0-9_]*|\d+|[=+\-*/<>:.,(){}[\];]', s) from position k on
RECURSIVE FindTokens(_, _)
FindTokens(s, k) ==
    IF k > Len(s) THEN <<>>
    ELSE LET n == IF s[k] \in Letras \cup {"_"} THEN Tramo(s, Letras \cup Digitos \cup {"_"}, k)
                  ELSE IF s[k] \in Digitos THEN Tramo(s, Digitos, k)
                  ELSE IF s[k] \in Simbolos THEN 1
                  ELSE 0
         IN  IF n = 0 THEN FindTokens(s, k + 1)
             ELSE <<SubSeq(s, k, k + n - 1)>> \o FindTokens(s, k + n)

STRING_LITERAL == <<"S", "T", "R", "I", "N", "G", "_", "L", "I", "T", "E", "R", "A", "L">>
KEYWORD_ == <<"K", "E", "Y", "W", "O", "R", "D", "_">>
Comilla3 == <<"\"", "\"", "\"">>
Apostrofo3 == <<"'", "'", "'">>
LenguajesC == {"javascript", "java", "cpp", "c", "csharp"}

\* line 83-91: docstrings and comments
QuitarComentarios(texto, lenguaje) ==
    IF lenguaje = "python"
    THEN LET t1 == SubEntre(texto, Comilla3, Comilla3, <<>>, 1)
             t2 == SubEntre(t1, Apostrofo3, Apostrofo3, <<>>, 1)
         IN  SubHastaFinDeLinea(t2, <<"#">>, 1)
    ELSE IF lenguaje \in LenguajesC
    THEN LET t1 == SubEntre(texto, <<"/", "*">>, <<"*", "/">>, <<>>, 1)
         IN  SubHastaFinDeLinea(t1, <<"/", "/">>, 1)
    ELSE texto

\* as SubEntre with a pattern that does not cross a line break (abre .*? cierra)
RECURSIVE SubEntreEnLinea(_, _, _, _, _)
SubEntreEnLinea(s, abre, cierra, repl, k) ==
    IF k > Len(s) THEN <<>>
    ELSE LET fin == IF EmpiezaEn(s, abre, k) THEN Buscar(s, cierra, k + Len(abre)) ELSE 0
             nl  == Buscar(s, <<"\n">>, k)
         IN  IF fin > 0 /\ (nl = 0 \/ nl > fin)
             THEN repl \o SubEntreEnLinea(s, abre, cierra, repl, fin + Len(cierra))
             ELSE <<s[k]>> \o SubEntreEnLinea(s, abre, cierra, repl, k + 1)

\* a string literal ends on the line it begins on
EnmascararLiterales_en_linea(texto) ==
    LET t1 == SubEntreEnLinea(texto, <<"\"">>, <<"\"">>, STRING_LITERAL, 1)
    IN  SubEntreEnLinea(t1, <<"'">>, <<"'">>, STRING_LITERAL, 1)

\* line 94-95: string literals
EnmascararLiterales(texto) ==
    LET t1 == SubEntre(texto, <<"\"">>, <<"\"">>, STRING_LITERAL, 1)
    IN  SubEntre(t1, <<"'">>, <<"'">>, STRING_LITERAL, 1)

\* the token is looked up as it is spelled
Normalizar_sin_lower(token) ==
    IF token \in PYTHON_KEYWORDS THEN KEYWORD_ \o Upper(token) ELSE Lower(token)

\* line 105-113: keywords are tagged, every other token is lower-cased
Normalizar(token) ==
    IF Lower(token) \in PYTHON_KEYWORDS THEN KEYWORD_ \o Upper(token) ELSE Lower(token)

\* line 66-117
limpiar_codigo(texto, lenguaje) ==
    IF Strip(texto) = <<>> THEN <<>>
    ELSE LET t1     == QuitarComentarios(texto, lenguaje)
             t2     == EnmascararLiterales(t1)
             t3     == SubEspacios(Strip(t2))
             tokens == FindTokens(t3, 1)
         IN  [k \in 1..Len(tokens) |-> Normalizar(tokens[k])]

\* ---------------------------------------------------------------------
\* State
\* ---------------------------------------------------------------------
VARIABLES
    pc,             \* position of the running function
    tokens1, tokens2,               \* the two operands handed to the metrics
    cos12, cos21, jac12, jac21,     \* similitud_coseno / similitud_jaccard in both operand orders
    a, b,           \* distancia_levenshtein: operands of the current call
    i, j,           \* distancia_levenshtein: loop indices (0-based, as enumerate counts)
    prev_row, curr_row,             \* distancia_levenshtein: the two rolling rows
    llamadas,       \* distancia_levenshtein: calls made for the current top-level call
    dist,           \* distancia_levenshtein: value returned by the current call
    dist12, dist21, \* distancia_levenshtein in both operand orders
    ratio12,        \* ratio_levenshtein(tokens1, tokens2)
    archivos,       \* comparar_archivos: the list of paths it is given
    threshold,      \* comparar_archivos: the threshold it is given
    leidos,         \* comparar_archivos: how many entries of archivos the first loop has taken
    codigos,        \* comparar_archivos: per processed path, its tokens and their space-joined text
    archivos_validos,               \* comparar_archivos: the paths that were processed, in order
    pa, pb,         \* comparar_archivos: positions in archivos_validos of the pair combinations yields next
    comparadas,     \* comparar_archivos: every pair the second loop has scored, with its three scores
    resultados,     \* comparar_archivos: the records kept
    estadisticas,   \* comparar_archivos: what generar_estadisticas returned
    guardados,      \* number of calls of guardar_resultados
    retorno,        \* what comparar_archivos returned
    llamador,       \* who calls comparar_archivos: main, or another caller directly
    salida,         \* main: the exit status of the process
    texto,          \* limpiar_codigo: the source text it is given
    lenguaje,       \* limpiar_codigo: the language tag it is given
    tokens_limpios  \* limpiar_codigo: the token list it returns

metVars == <<cos12, cos21, jac12, jac21>>
levVars == <<a, b, i, j, prev_row, curr_row, llamadas, dist>>
resVars == <<dist12, dist21, ratio12>>
limVars == <<texto, lenguaje, tokens_limpios>>
harVars == <<tokens1, tokens2, metVars, levVars, resVars, limVars>>
mainVars == <<llamador, salida>>
cmpVars == <<archivos, threshold, leidos, codigos, archivos_validos, pa, pb, comparadas,
             resultados, estadisticas, guardados, retorno, mainVars>>
vars == <<pc, harVars, cmpVars>>

\* ---------------------------------------------------------------------
\* The metrics applied to bounded operands
\* ---------------------------------------------------------------------
Letras2 == {"a", "b"}
Letras3 == {"a", "b", "c"}

\* every sequence over two symbols up to MaxLen, over three symbols up to MaxLen - 1;
\* a sequence is read as a token list by the token metrics and as a string by
\* distancia_levenshtein and ratio_levenshtein
Entradas == SeqsUpTo(Letras2, MaxLen) \cup SeqsUpTo(Letras3, MaxLen - 1)

kitten == <<"k", "i", "t", "t", "e", "n">>
sitting == <<"s", "i", "t", "t", "i", "n", "g">>
def_foo == <<"def", "foo">>
abc == <<"a", "b", "c">>

\* further operand pairs: the documented scenarios, and three distinct tokens
Casos == {<<kitten, sitting>>, <<def_foo, def_foo>>, <<<<"a", "b">>, <<"c", "d">>>>, <<abc, abc>>}

\* the comparison is not running
CmpOcioso ==
    /\ archivos = <<>> /\ threshold = FZero /\ leidos = 0
    /\ codigos = <<>> /\ archivos_validos = <<>>
    /\ pa = 0 /\ pb = 0
    /\ comparadas = <<>> /\ resultados = <<>>
    /\ estadisticas = <<>> /\ guardados = 0 /\ retorno = "pendiente"
    /\ llamador = "nadie" /\ salida = -1

\* limpiar_codigo is not running
LimOcioso == texto = <<>> /\ lenguaje = "python" /\ tokens_limpios = <<>>

InitMetricas ==
    /\ \E par \in (Entradas \X Entradas) \cup Casos :
          /\ tokens1 = par[1]
          /\ tokens2 = par[2]
    /\ pc = "medir"
    /\ cos12 = FZero /\ cos21 = FZero /\ jac12 = FZero /\ jac21 = FZero
    /\ a = <<>> /\ b = <<>> /\ i = 0 /\ j = 0
    /\ prev_row = <<>> /\ curr_row = <<>>
    /\ llamadas = 0 /\ dist = 0
    /\ dist12 = 0 /\ dist21 = 0 /\ ratio12 = FZero
    /\ LimOcioso
    /\ CmpOcioso

\* the token metrics, called in both operand orders; then distancia_levenshtein(tokens1, tokens2) is called
Medir ==
    /\ pc = "medir"
    /\ cos12' = similitud_coseno(tokens1, tokens2)
    /\ cos21' = similitud_coseno(tokens2, tokens1)
    /\ jac12' = similitud_jaccard(tokens1, tokens2)
    /\ jac21' = similitud_jaccard(tokens2, tokens1)
    /\ a' = tokens1 /\ b' = tokens2
    /\ llamadas' = 1
    /\ pc' = "lev_entrada"
    /\ UNCHANGED <<tokens1, tokens2, i, j, prev_row, curr_row, dist, resVars>>
    /\ UNCHANGED <<cmpVars, limVars>>

\* the call is repeated with the operands swapped unless the first is the longer one
DebeIntercambiar_igual(x, y) == Len(x) <= Len(y)

\* line 223: if len(a) < len(b)
DebeIntercambiar(x, y) == Len(x) < Len(y)

\* line 223-224: the shorter operand becomes b by a recursive call with the operands swapped
LevIntercambio ==
    /\ pc = "lev_entrada"
    /\ DebeIntercambiar(a, b)
    /\ a' = b /\ b' = a
    /\ llamadas' = llamadas + 1
    /\ UNCHANGED <<pc, tokens1, tokens2, metVars, i, j, prev_row, curr_row, dist, resVars>>
    /\ UNCHANGED <<cmpVars, limVars>>

\* line 226-227
LevBase ==
    /\ pc = "lev_entrada"
    /\ ~DebeIntercambiar(a, b)
    /\ Len(b) = 0
    /\ dist' = Len(a)
    /\ pc' = "lev_retorno"
    /\ UNCHANGED <<tokens1, tokens2, metVars, a, b, i, j, prev_row, curr_row, llamadas, resVars>>
    /\ UNCHANGED <<cmpVars, limVars>>

\* line 230
LevInicio ==
    /\ pc = "lev_entrada"
    /\ ~DebeIntercambiar(a, b)
    /\ Len(b) # 0
    /\ prev_row' = RangeRow(Len(b))
    /\ i' = 0
    /\ pc' = "lev_externo"
    /\ UNCHANGED <<tokens1, tokens2, metVars, a, b, j, curr_row, llamadas, dist, resVars>>
    /\ UNCHANGED <<cmpVars, limVars>>

\* line 232-233: the outer loop takes character i of a
LevIniciaFila ==
    /\ pc = "lev_externo"
    /\ i < Len(a)
    /\ curr_row' = <<i + 1>>
    /\ j' = 0
    /\ pc' = "lev_interno"
    /\ UNCHANGED <<tokens1, tokens2, metVars, a, b, i, prev_row, llamadas, dist, resVars>>
    /\ UNCHANGED <<cmpVars, limVars>>

\* line 234-240: one pass of the inner loop
LevPaso ==
    /\ pc = "lev_interno"
    /\ j < Len(b)
    /\ curr_row' = Append(curr_row, LevCelda(prev_row, curr_row, a[i + 1], b[j + 1], j + 1))
    /\ j' = j + 1
    /\ UNCHANGED <<pc, tokens1, tokens2, metVars, a, b, i, prev_row, llamadas, dist, resVars>>
    /\ UNCHANGED <<cmpVars, limVars>>

\* line 242
LevCierraFila ==
    /\ pc = "lev_interno"
    /\ j >= Len(b)
    /\ prev_row' = curr_row
    /\ i' = i + 1
    /\ pc' = "lev_externo"
    /\ UNCHANGED <<tokens1, tokens2, metVars, a, b, j, curr_row, llamadas, dist, resVars>>
    /\ UNCHANGED <<cmpVars, limVars>>

\* line 244
LevFin ==
    /\ pc = "lev_externo"
    /\ i >= Len(a)
    /\ dist' = prev_row[Len(prev_row)]
    /\ pc' = "lev_retorno"
    /\ UNCHANGED <<tokens1, tokens2, metVars, a, b, i, j, prev_row, curr_row, llamadas, resVars>>
    /\ UNCHANGED <<cmpVars, limVars>>

\* the value reaches the top-level caller, which then calls with the operands
\* swapped and takes ratio_levenshtein of the same operands
LevRetorno ==
    /\ pc = "lev_retorno"
    /\ dist12' = dist
    /\ dist21' = distancia_levenshtein(tokens2, tokens1)
    /\ ratio12' = ratio_levenshtein(tokens1, tokens2)
    /\ pc' = "done"
    /\ UNCHANGED <<tokens1, tokens2, metVars, levVars>>
    /\ UNCHANGED <<cmpVars, limVars>>

NextMetricas ==
    \/ Medir
    \/ LevIntercambio
    \/ LevBase
    \/ LevInicio
    \/ LevIniciaFila
    \/ LevPaso
    \/ LevCierraFila
    \/ LevFin
    \/ LevRetorno

SpecMetricas == InitMetricas /\ [][NextMetricas]_vars

\* line 223-244: the steps of distancia_levenshtein
LevEjecuta ==
    \/ LevIntercambio
    \/ LevBase
    \/ LevInicio
    \/ LevIniciaFila
    \/ LevPaso
    \/ LevCierraFila
    \/ LevFin

\* a call of distancia_levenshtein is run to its end by the interpreter: while
\* one of its steps can be taken, one is taken
SpecMetricasJusta == InitMetricas /\ [][NextMetricas]_vars /\ WF_vars(LevEjecuta)

\* the stepwise run and the function agree
LevCoherente == pc = "done" => dist12 = distancia_levenshtein(tokens1, tokens2)

\* ---------------------------------------------------------------------
\* comparar_archivos
\* ---------------------------------------------------------------------
Decimales == 4

RECURSIVE Pow10(_)
Pow10(n) == IF n = 0 THEN 1 ELSE 10 * Pow10(n - 1)

\* round(x, nd) for 0 <= x < 2^52: the decimal with nd places nearest to the exact
\* value of x, ties to even, and then the float nearest to that decimal
Redondear(x, nd) ==
    IF x = FZero \/ x.e >= 0 THEN x
    ELSE LET N    == BMulSmall(x.m, Pow10(nd))
             sh   == 0 - x.e
             q    == BShr(N, sh)
             half == BBit(N, sh - 1) = 1
             rest == BLowNonzero(N, sh - 1)
             up   == half /\ (rest \/ BBit(q, 0) = 1)
         IN  FDiv(FFromInt(BToInt(q) + (IF up THEN 1 ELSE 0)), FFromInt(Pow10(nd)))

\* ' '.join(tokens); a token is a sequence of characters
RECURSIVE Join(_)
Join(tokens) ==
    IF tokens = <<>> THEN <<>>
    ELSE IF Len(tokens) = 1 THEN tokens[1]
    ELSE tokens[1] \o <<" ">> \o Join(Tail(tokens))

\* sum(xs) of floats, adding left to right from 0
RECURSIVE FSum(_)
FSum(xs) == IF xs = <<>> THEN FZero
            ELSE FAdd(FSum(SubSeq(xs, 1, Len(xs) - 1)), xs[Len(xs)])

RECURSIVE FMaxSeq(_)
FMaxSeq(xs) == IF Len(xs) = 1 THEN xs[1]
               ELSE LET m == FMaxSeq(Tail(xs)) IN IF FLt(m, xs[1]) THEN xs[1] ELSE m

RECURSIVE FMinSeq(_)
FMinSeq(xs) == IF Len(xs) = 1 THEN xs[1]
               ELSE LET m == FMinSeq(Tail(xs)) IN IF FLt(xs[1], m) THEN xs[1] ELSE m

\* line 326-334: mean, maximum and minimum of one column
Resumen(xs) ==
    [promedio |-> FDiv(FSum(xs), FFromInt(Len(xs))), max |-> FMaxSeq(xs), min |-> FMinSeq(xs)]

\* the means are stored under <metric>_mean
generar_estadisticas_mean(res) ==
    IF res = <<>> THEN <<>>
    ELSE LET columnas == [f \in {"cosine", "jaccard", "levenshtein"} |->
                             [n \in 1..Len(res) |-> res[n][f]]]
             r        == [f \in {"cosine", "jaccard", "levenshtein"} |-> Resumen(columnas[f])]
         IN  [cosine_mean          |-> r["cosine"].promedio,
              cosine_max           |-> r["cosine"].max,
              cosine_min           |-> r["cosine"].min,
              jaccard_mean         |-> r["jaccard"].promedio,
              jaccard_max          |-> r["jaccard"].max,
              jaccard_min          |-> r["jaccard"].min,
              levenshtein_mean     |-> r["levenshtein"].promedio,
              levenshtein_max      |-> r["levenshtein"].max,
              levenshtein_min      |-> r["levenshtein"].min,
              total_comparaciones  |-> Len(res)]

\* line 308-336; the empty dict stands as <<>>
generar_estadisticas(res) ==
    IF res = <<>> THEN <<>>
    ELSE LET columnas == [f \in {"cosine", "jaccard", "levenshtein"} |->
                             [n \in 1..Len(res) |-> res[n][f]]]
             r        == [f \in {"cosine", "jaccard", "levenshtein"} |-> Resumen(columnas[f])]
         IN  [cosine_promedio      |-> r["cosine"].promedio,
              cosine_max           |-> r["cosine"].max,
              cosine_min           |-> r["cosine"].min,
              jaccard_promedio     |-> r["jaccard"].promedio,
              jaccard_max          |-> r["jaccard"].max,
              jaccard_min          |-> r["jaccard"].min,
              levenshtein_promedio |-> r["levenshtein"].promedio,
              levenshtein_max      |-> r["levenshtein"].max,
              levenshtein_min      |-> r["levenshtein"].min,
              total_comparaciones  |-> Len(res)]

\* The files on disk.  valido is what validar_archivo answers for the path,
\* tokens what limpiar_codigo makes of the content (a token is a sequence of
\* characters): two files that differ in one token, one unrelated file, a file
\* with only a comment, and a file validar_archivo rejects.
Nombres == {"a.py", "b.py", "c.py", "vacio.py", "notas.txt"}

Disco ==
    [n \in Nombres |->
        CASE n = "a.py"      -> [valido |-> TRUE,  tokens |-> <<<<"x">>, <<"=">>, <<"1">>>>]
          [] n = "b.py"      -> [valido |-> TRUE,  tokens |-> <<<<"x">>, <<"=">>, <<"2">>>>]
          [] n = "c.py"      -> [valido |-> TRUE,  tokens |-> <<<<"f">>, <<"(">>, <<")">>, <<";">>>>]
          [] n = "vacio.py"  -> [valido |-> TRUE,  tokens |-> <<>>]
          [] n = "notas.txt" -> [valido |-> FALSE, tokens |-> <<>>]]

\* thresholds: the default, 0.28571 (between the Levenshtein ratio 2/7 of c.py
\* and a.py and its value to four decimals), 0.7, 0.8 (the Levenshtein ratio
\* of a.py and b.py), 1.0 and one outside the range main accepts
Umbrales == {FZero, FDiv(FFromInt(28571), FFromInt(100000)),
             FDiv(FFromInt(7), FFromInt(10)), FDiv(FFromInt(8), FFromInt(10)), FOne,
             FDiv(FFromInt(3), FFromInt(2))}

\* the metrics are not being measured
HarOcioso ==
    /\ tokens1 = <<>> /\ tokens2 = <<>>
    /\ cos12 = FZero /\ cos21 = FZero /\ jac12 = FZero /\ jac21 = FZero
    /\ a = <<>> /\ b = <<>> /\ i = 0 /\ j = 0
    /\ prev_row = <<>> /\ curr_row = <<>>
    /\ llamadas = 0 /\ dist = 0
    /\ dist12 = 0 /\ dist21 = 0 /\ ratio12 = FZero
    /\ LimOcioso

\* the program is started with paths and a threshold on its command line, or
\* comparar_archivos is called directly with a list of paths and a threshold;
\* salida = -1: the process has not exited
Init ==
    /\ archivos \in SeqsUpTo(Nombres, MaxFiles)
    /\ threshold \in Umbrales
    /\ llamador \in {"main", "directo"}
    /\ pc = IF llamador = "main" THEN "main" ELSE "validar"
    /\ salida = -1
    /\ leidos = 0
    /\ codigos = <<>> /\ archivos_validos = <<>>
    /\ pa = 0 /\ pb = 0
    /\ comparadas = <<>> /\ resultados = <<>>
    /\ estadisticas = <<>> /\ guardados = 0 /\ retorno = "pendiente"
    /\ HarOcioso

\* line 879, 897: nargs='+' makes parse_args exit with status 2 without a path
ArgparseError ==
    /\ pc = "main"
    /\ Len(archivos) = 0
    /\ salida' = 2
    /\ pc' = "salida"
    /\ UNCHANGED <<archivos, threshold, leidos, codigos, archivos_validos, pa, pb, comparadas,
                   resultados, estadisticas, guardados, retorno, llamador>>
    /\ UNCHANGED harVars

\* line 900-902
MainPocosArchivos ==
    /\ pc = "main"
    /\ Len(archivos) > 0
    /\ Len(archivos) < 2
    /\ salida' = 1
    /\ pc' = "salida"
    /\ UNCHANGED <<archivos, threshold, leidos, codigos, archivos_validos, pa, pb, comparadas,
                   resultados, estadisticas, guardados, retorno, llamador>>
    /\ UNCHANGED harVars

\* line 904: 0.0 <= args.threshold <= 1.0
UmbralValido(t) == FLe(FZero, t) /\ FLe(t, FOne)

\* line 904-906
MainUmbralInvalido ==
    /\ pc = "main"
    /\ Len(archivos) >= 2
    /\ ~UmbralValido(threshold)
    /\ salida' = 1
    /\ pc' = "salida"
    /\ UNCHANGED <<archivos, threshold, leidos, codigos, archivos_validos, pa, pb, comparadas,
                   resultados, estadisticas, guardados, retorno, llamador>>
    /\ UNCHANGED harVars

\* line 914-920: main calls comparar_archivos
MainLlama ==
    /\ pc = "main"
    /\ Len(archivos) >= 2
    /\ UmbralValido(threshold)
    /\ pc' = "validar"
    /\ UNCHANGED <<archivos, threshold, leidos, codigos, archivos_validos, pa, pb, comparadas,
                   resultados, estadisticas, guardados, retorno, llamador, salida>>
    /\ UNCHANGED harVars

\* the process ends with status 0 whatever comparar_archivos returned
CodigoSalida_cero(ret) == 0

\* an empty list ends the process like None does (if not resultados)
CodigoSalida_vacia(ret) == IF ret \in {"None", "vacia"} THEN 1 ELSE 0

\* line 922-923: sys.exit(1) on None; otherwise main returns and the status is 0
CodigoSalida(ret) == IF ret = "None" THEN 1 ELSE 0

\* line 922-927: comparar_archivos has returned to main
MainTermina ==
    /\ pc = "fin"
    /\ llamador = "main"
    /\ salida' = CodigoSalida(retorno)
    /\ pc' = "salida"
    /\ UNCHANGED <<archivos, threshold, leidos, codigos, archivos_validos, pa, pb, comparadas,
                   resultados, estadisticas, guardados, retorno, llamador>>
    /\ UNCHANGED harVars

nombre == archivos[leidos + 1]

\* line 784-787: validar_archivo rejects the path
DescartarInvalido ==
    /\ pc = "validar"
    /\ leidos < Len(archivos)
    /\ ~Disco[nombre].valido
    /\ leidos' = leidos + 1
    /\ UNCHANGED <<pc, archivos, threshold, codigos, archivos_validos, pa, pb, comparadas,
                   resultados, estadisticas, guardados, retorno>>
    /\ UNCHANGED <<harVars, mainVars>>

\* line 793-797: limpiar_codigo returns no token
DescartarSinTokens ==
    /\ pc = "validar"
    /\ leidos < Len(archivos)
    /\ Disco[nombre].valido
    /\ Disco[nombre].tokens = <<>>
    /\ leidos' = leidos + 1
    /\ UNCHANGED <<pc, archivos, threshold, codigos, archivos_validos, pa, pb, comparadas,
                   resultados, estadisticas, guardados, retorno>>
    /\ UNCHANGED <<harVars, mainVars>>

\* line 799-801: codigos[nombre] and codigos[nombre + "_txt"] are the two fields of one entry
Procesar ==
    /\ pc = "validar"
    /\ leidos < Len(archivos)
    /\ Disco[nombre].valido
    /\ Disco[nombre].tokens # <<>>
    /\ codigos' = [n \in DOMAIN codigos \cup {nombre} |->
                      IF n = nombre
                      THEN [tokens |-> Disco[nombre].tokens, txt |-> Join(Disco[nombre].tokens)]
                      ELSE codigos[n]]
    /\ archivos_validos' = Append(archivos_validos, nombre)
    /\ leidos' = leidos + 1
    /\ UNCHANGED <<pc, archivos, threshold, pa, pb, comparadas,
                   resultados, estadisticas, guardados, retorno>>
    /\ UNCHANGED <<harVars, mainVars>>

\* line 808-810
FaltanArchivos ==
    /\ pc = "validar"
    /\ leidos = Len(archivos)
    /\ Len(archivos_validos) < 2
    /\ retorno' = "None"
    /\ pc' = "fin"
    /\ UNCHANGED <<archivos, threshold, leidos, codigos, archivos_validos, pa, pb, comparadas,
                   resultados, estadisticas, guardados>>
    /\ UNCHANGED <<harVars, mainVars>>

\* line 815-819: combinations(archivos_validos, 2) starts at positions (1, 2)
IniciarComparacion ==
    /\ pc = "validar"
    /\ leidos = Len(archivos)
    /\ Len(archivos_validos) >= 2
    /\ resultados' = <<>>
    /\ pa' = 1 /\ pb' = 2
    /\ pc' = "comparar"
    /\ UNCHANGED <<archivos, threshold, leidos, codigos, archivos_validos, comparadas,
                   estadisticas, guardados, retorno>>
    /\ UNCHANGED <<harVars, mainVars>>

Metricas == {"cosine", "jaccard", "levenshtein"}

\* line 820-822: the three scores of a pair of processed files
Puntuar(ca, cb) ==
    [cosine      |-> similitud_coseno(ca.tokens, cb.tokens),
     jaccard     |-> similitud_jaccard(ca.tokens, cb.tokens),
     levenshtein |-> ratio_levenshtein(ca.txt, cb.txt)]

\* the comparison with the threshold is strict
SuperaUmbral_estricto(p, t) == FLt(t, FMax(p.cosine, FMax(p.jaccard, p.levenshtein)))

\* line 825: max(cos, jac, lev) >= threshold
SuperaUmbral(p, t) == FLe(t, FMax(p.cosine, FMax(p.jaccard, p.levenshtein)))

\* the record names the later file first
Registro_invertido(na, nb, p) ==
    LET r == [f \in Metricas |-> Redondear(p[f], Decimales)]
    IN  [archivo_a |-> nb, archivo_b |-> na,
         cosine |-> r["cosine"], jaccard |-> r["jaccard"], levenshtein |-> r["levenshtein"]]

\* line 826: the record appended to resultados
Registro(na, nb, p) ==
    LET r == [f \in Metricas |-> Redondear(p[f], Decimales)]
    IN  [archivo_a |-> na, archivo_b |-> nb,
         cosine |-> r["cosine"], jaccard |-> r["jaccard"], levenshtein |-> r["levenshtein"]]

\* only neighbours in the list are paired
SiguientePar_vecinos(x, y, n) == <<x + 1, y + 1>>

\* line 819: the pair of positions combinations(archivos_validos, 2) yields after
\* (x, y), for a list of n elements; the pairs come in lexicographic order
SiguientePar(x, y, n) == IF y < n THEN <<x, y + 1>> ELSE <<x + 1, x + 2>>

\* line 819-826: one pass of the loop over combinations(archivos_validos, 2)
Comparar ==
    /\ pc = "comparar"
    /\ pb <= Len(archivos_validos)
    /\ \E na \in {archivos_validos[pa]}, nb \in {archivos_validos[pb]} :
         \E p \in {Puntuar(codigos[na], codigos[nb])} :
            /\ comparadas' = Append(comparadas,
                   [archivo_a |-> na, archivo_b |-> nb, cosine |-> p.cosine,
                    jaccard |-> p.jaccard, levenshtein |-> p.levenshtein])
            /\ resultados' =
                   IF SuperaUmbral(p, threshold)
                   THEN Append(resultados, Registro(na, nb, p))
                   ELSE resultados
    /\ pa' = SiguientePar(pa, pb, Len(archivos_validos))[1]
    /\ pb' = SiguientePar(pa, pb, Len(archivos_validos))[2]
    /\ UNCHANGED <<pc, archivos, threshold, leidos, codigos, archivos_validos,
                   estadisticas, guardados, retorno>>
    /\ UNCHANGED <<harVars, mainVars>>

\* line 835-837
SinSimilitudes ==
    /\ pc = "comparar"
    /\ pb > Len(archivos_validos)
    /\ resultados = <<>>
    /\ retorno' = "vacia"
    /\ pc' = "fin"
    /\ UNCHANGED <<archivos, threshold, leidos, codigos, archivos_validos, pa, pb, comparadas,
                   resultados, estadisticas, guardados>>
    /\ UNCHANGED <<harVars, mainVars>>

\* line 840-852
Reportar ==
    /\ pc = "comparar"
    /\ pb > Len(archivos_validos)
    /\ resultados # <<>>
    /\ estadisticas' = generar_estadisticas(resultados)
    /\ guardados' = guardados + 1
    /\ retorno' = "resultados"
    /\ pc' = "fin"
    /\ UNCHANGED <<archivos, threshold, leidos, codigos, archivos_validos, pa, pb, comparadas,
                   resultados>>
    /\ UNCHANGED <<harVars, mainVars>>

Next ==
    \/ ArgparseError
    \/ MainPocosArchivos
    \/ MainUmbralInvalido
    \/ MainLlama
    \/ MainTermina
    \/ DescartarInvalido
    \/ DescartarSinTokens
    \/ Procesar
    \/ FaltanArchivos
    \/ IniciarComparacion
    \/ Comparar
    \/ SinSimilitudes
    \/ Reportar

Spec == Init /\ [][Next]_vars

\* ---------------------------------------------------------------------
\* generar_estadisticas applied to bounded result lists
\* ---------------------------------------------------------------------
Dec(n, d) == FDiv(FFromInt(n), FFromInt(d))

\* records of the shape comparar_archivos appends: two names and three scores
\* of at most four decimals
RegistrosPrueba ==
    {[archivo_a |-> "a.py", archivo_b |-> "b.py",
      cosine |-> Dec(6667, 10000), jaccard |-> Dec(5, 10), levenshtein |-> Dec(8, 10)],
     [archivo_a |-> "a.py", archivo_b |-> "c.py",
      cosine |-> FZero, jaccard |-> FZero, levenshtein |-> Dec(2, 10)],
     [archivo_a |-> "b.py", archivo_b |-> "c.py",
      cosine |-> FOne, jaccard |-> FOne, levenshtein |-> FOne],
     [archivo_a |-> "b.py", archivo_b |-> "a.py",
      cosine |-> Dec(1, 10), jaccard |-> Dec(3333, 10000), levenshtein |-> Dec(7, 10)]}

InitEstadisticas ==
    /\ resultados \in SeqsUpTo(RegistrosPrueba, MaxRes)
    /\ pc = "estadisticas"
    /\ archivos = <<>> /\ threshold = FZero /\ leidos = 0
    /\ codigos = <<>> /\ archivos_validos = <<>>
    /\ pa = 0 /\ pb = 0
    /\ comparadas = <<>>
    /\ estadisticas = <<>> /\ guardados = 0 /\ retorno = "pendiente"
    /\ llamador = "nadie" /\ salida = -1
    /\ HarOcioso

\* line 308-336: one call of generar_estadisticas
GenerarEstadisticas ==
    /\ pc = "estadisticas"
    /\ estadisticas' = generar_estadisticas(resultados)
    /\ pc' = "est_fin"
    /\ UNCHANGED <<archivos, threshold, leidos, codigos, archivos_validos, pa, pb, comparadas,
                   resultados, guardados, retorno, mainVars>>
    /\ UNCHANGED harVars

NextEstadisticas == GenerarEstadisticas

SpecEstadisticas == InitEstadisticas /\ [][NextEstadisticas]_vars

\* ---------------------------------------------------------------------
\* limpiar_codigo applied to bounded texts
\* ---------------------------------------------------------------------
\* the pieces the texts are made of: an identifier, a reserved word in mixed
\* case, a symbol, a character outside the token classes, white space, the
\* comment markers and the two quotes
Fragmentos ==
    {<<"x">>, <<"D", "e", "f">>, <<"=">>, <<"@">>, <<" ">>, <<"\n">>, <<"#">>, <<"\"">>, <<"'">>,
     <<"/">>}

RECURSIVE Aplanar(_)
Aplanar(ps) == IF ps = <<>> THEN <<>> ELSE Head(ps) \o Aplanar(Tail(ps))

\* further texts: docstrings, a block comment, an escaped quote, a number, an
\* identifier spelled like a keyword tag, reserved words in three spellings
TextosCaso ==
    {Comilla3 \o <<"x">> \o Comilla3,
     Apostrofo3 \o <<"x", "\n">> \o Apostrofo3 \o <<"\n", "x">>,
     <<"/", "*", "x", "*", "/", "x">>,
     <<"\"", "x", "\\", "\"", "x", "\"">>,
     <<"x", "=", "1", "2">>,
     KEYWORD_ \o <<"D", "E", "F", " ", "d", "e", "f", " ", "D", "E", "F">>,
     <<"x", " ", "=", " ", "\"", "x", "#", "x", "\"">>}

Lenguajes == {"python", "javascript", "unknown"}

InitLimpiar ==
    /\ texto \in {Aplanar(ps) : ps \in SeqsUpTo(Fragmentos, MaxPiezas)} \cup TextosCaso
    /\ lenguaje \in Lenguajes
    /\ tokens_limpios = <<>>
    /\ pc = "limpiar"
    /\ tokens1 = <<>> /\ tokens2 = <<>>
    /\ cos12 = FZero /\ cos21 = FZero /\ jac12 = FZero /\ jac21 = FZero
    /\ a = <<>> /\ b = <<>> /\ i = 0 /\ j = 0
    /\ prev_row = <<>> /\ curr_row = <<>>
    /\ llamadas = 0 /\ dist = 0
    /\ dist12 = 0 /\ dist21 = 0 /\ ratio12 = FZero
    /\ CmpOcioso

\* line 66-117: one call of limpiar_codigo
Limpiar ==
    /\ pc = "limpiar"
    /\ tokens_limpios' = limpiar_codigo(texto, lenguaje)
    /\ pc' = "limpio"
    /\ UNCHANGED <<texto, lenguaje, tokens1, tokens2, metVars, levVars, resVars>>
    /\ UNCHANGED cmpVars

NextLimpiar == Limpiar

SpecLimpiar == InitLimpiar /\ [][NextLimpiar]_vars

\* ---------------------------------------------------------------------
\* Properties of the metrics
\* ---------------------------------------------------------------------
Termino == pc = "done"
AmbosVacios == tokens1 = <<>> /\ tokens2 = <<>>
UnoVacio == (tokens1 = <<>>) # (tokens2 = <<>>)
MaxLong == Max2(Len(tokens1), Len(tokens2))

\* the textbook recursive definition of the edit distance
RECURSIVE LevRef(_, _)
LevRef(s, t) ==
    IF s = <<>> THEN Len(t)
    ELSE IF t = <<>> THEN Len(s)
    ELSE IF Head(s) = Head(t) THEN LevRef(Tail(s), Tail(t))
    ELSE 1 + Min3(LevRef(Tail(s), t), LevRef(s, Tail(t)), LevRef(Tail(s), Tail(t)))

\* a score within [0.0, 1.0]
EnUnidad(v) == v # ZeroDivisionError /\ v # Negativo /\ FLe(FZero, v) /\ FLe(v, FOne)

\* C1: distancia_levenshtein(a, b) is the minimum number of single-character
\* insertions, deletions and substitutions turning a into b (the reference
\* recursive definition); to or from the empty string it is the other string's
\* length, and for "kitten", "sitting" it is 3.
C1_DistanciaExacta ==
    Termino =>
        /\ dist12 = LevRef(tokens1, tokens2)
        /\ (tokens1 = <<>> => dist12 = Len(tokens2))
        /\ (tokens2 = <<>> => dist12 = Len(tokens1))
        /\ (tokens1 = kitten /\ tokens2 = sitting => dist12 = 3)

C1_Witness == Termino /\ tokens1 = kitten /\ tokens2 = sitting /\ dist12 = 3

\* C2: similitud_coseno, similitud_jaccard and ratio_levenshtein each return a
\* value between 0.0 and 1.0 for all operands, empty ones included.
C2_Rango ==
    Termino => EnUnidad(cos12) /\ EnUnidad(jac12) /\ EnUnidad(ratio12)

\* C3: operand order never changes a metric: similitud_coseno, similitud_jaccard
\* and distancia_levenshtein give the same value for (A, B) and (B, A), also
\* when the lengths are equal and no swap happens.
C3_Simetria ==
    Termino => cos12 = cos21 /\ jac12 = jac21 /\ dist12 = dist21

C3_Witness ==
    /\ Termino
    /\ tokens1 # tokens2
    /\ Len(tokens1) = Len(tokens2)
    /\ llamadas = 1
    /\ cos12 # FZero /\ cos12 = cos21
    /\ dist12 > 0 /\ dist12 = dist21

\* C4: an operand compared with itself scores the maximum: similitud_jaccard(A, A)
\* and similitud_coseno(A, A) are 1.0 for every non-empty A, and
\* ratio_levenshtein(s, s) is 1.0 for every s, the empty string included.
C4_Identidad ==
    Termino /\ tokens1 = tokens2 =>
        /\ ratio12 = FOne
        /\ (tokens1 # <<>> => jac12 = FOne /\ cos12 = FOne)

\* C5: degenerate operands give a defined score and no division by zero: with
\* exactly one empty operand all three metrics are 0.0; with both empty
\* ratio_levenshtein is 1.0 and the token metrics are 0.0; no operand pair
\* makes a metric divide by zero.
C5_Degenerados ==
    Termino =>
        /\ UnoVacio => cos12 = FZero /\ jac12 = FZero /\ ratio12 = FZero
        /\ AmbosVacios => cos12 = FZero /\ jac12 = FZero /\ ratio12 = FOne
        /\ cos12 # ZeroDivisionError /\ cos21 # ZeroDivisionError
        /\ jac12 # ZeroDivisionError /\ jac21 # ZeroDivisionError
        /\ ratio12 # ZeroDivisionError

C5_Witness == Termino /\ UnoVacio /\ cos12 = FZero /\ jac12 = FZero /\ ratio12 = FZero

\* C6: 0 <= distancia_levenshtein(a, b) <= max(len(a), len(b)), so the quotient
\* dist / max_len that ratio_levenshtein forms never exceeds 1.
C6_CotaDistancia ==
    Termino =>
        /\ 0 <= dist12 /\ dist12 <= MaxLong
        /\ MaxLong > 0 => FLe(FDiv(FFromInt(dist12), FFromInt(MaxLong)), FOne)

C6_Witness == Termino /\ tokens1 # <<>> /\ tokens2 # <<>> /\ dist12 = MaxLong

\* C7: ratio_levenshtein(s, t) is 1.0 when both strings are empty, 0.0 when
\* exactly one is, and otherwise 1 - distance / max(len(s), len(t)); so for
\* non-empty strings it is 1.0 exactly when s = t and 0.0 exactly when the
\* distance is the longer length.
C7_Ratio ==
    Termino =>
        /\ ratio12 = IF AmbosVacios THEN FOne
                     ELSE IF UnoVacio THEN FZero
                     ELSE FSub(FOne, FDiv(FFromInt(LevRef(tokens1, tokens2)), FFromInt(MaxLong)))
        /\ tokens1 # <<>> /\ tokens2 # <<>> =>
              /\ (ratio12 = FOne) <=> (tokens1 = tokens2)
              /\ (ratio12 = FZero) <=> (LevRef(tokens1, tokens2) = MaxLong)

C7_Witness ==
    /\ Termino
    /\ tokens1 # <<>> /\ tokens2 # <<>>
    /\ ratio12 # FZero /\ ratio12 # FOne
    /\ Len(tokens1) # Len(tokens2)

\* occurrences of token t in a token list
Veces(tokens, t) == Cardinality({k \in 1..Len(tokens) : tokens[k] = t})
Comunes == Range(tokens1) \cap Range(tokens2)
Norma2(tokens) == SumOver(Range(tokens), [t \in Range(tokens) |-> Veces(tokens, t) * Veces(tokens, t)])

\* C8: similitud_coseno(A, B) is the sparse cosine of the token-count vectors:
\* the sum over the tokens present in both of countA * countB, divided by the
\* product of the square roots of each side's sum of squared counts over its
\* own tokens; it is 0.0 when A and B share no token (as is similitud_jaccard,
\* e.g. for ["a","b"] and ["c","d"]) and positive when they share one.
C8_Coseno ==
    Termino =>
        /\ cos12 = IF Comunes = {} THEN FZero
                   ELSE FDiv(FFromInt(SumOver(Comunes, [t \in Comunes |-> Veces(tokens1, t) * Veces(tokens2, t)])),
                             FMul(FSqrtInt(Norma2(tokens1)), FSqrtInt(Norma2(tokens2))))
        /\ Comunes = {} => cos12 = FZero /\ jac12 = FZero
        /\ Comunes # {} => FLt(FZero, cos12)

C8_Witness ==
    /\ Termino
    /\ tokens1 = <<"a", "b">> /\ tokens2 = <<"c", "d">>
    /\ cos12 = FZero /\ jac12 = FZero

\* ---------------------------------------------------------------------
\* Properties of comparar_archivos
\* ---------------------------------------------------------------------
Fin == pc = "fin"

\* the entries of the input list that pass validar_archivo and give a token
Aptos == {k \in 1..Len(archivos) : Disco[archivos[k]].valido /\ Disco[archivos[k]].tokens # <<>>}
NAptos == Cardinality(Aptos)

\* C9: with N entries of the input list passing validation and giving a
\* non-empty token list (the others are left out without ending the run),
\* comparar_archivos scores exactly N * (N - 1) / 2 pairs, each with its three
\* scores, before the threshold filters them.
C9_ParesCompletos ==
    /\ Len(comparadas) <= (NAptos * (NAptos - 1)) \div 2
    /\ Len(resultados) <= Len(comparadas)
    /\ Fin => /\ Len(comparadas) = (NAptos * (NAptos - 1)) \div 2
              /\ Len(archivos_validos) = NAptos
              /\ \A k \in 1..Len(comparadas) :
                    /\ comparadas[k].cosine =
                          similitud_coseno(Disco[comparadas[k].archivo_a].tokens,
                                           Disco[comparadas[k].archivo_b].tokens)
                    /\ comparadas[k].jaccard =
                          similitud_jaccard(Disco[comparadas[k].archivo_a].tokens,
                                            Disco[comparadas[k].archivo_b].tokens)
                    /\ comparadas[k].levenshtein =
                          ratio_levenshtein(Join(Disco[comparadas[k].archivo_a].tokens),
                                            Join(Disco[comparadas[k].archivo_b].tokens))

C9_Witness ==
    /\ Fin
    /\ NAptos = 3
    /\ Len(comparadas) = 3
    /\ Len(resultados) < 3

ParDe(k) == {comparadas[k].archivo_a, comparadas[k].archivo_b}

\* C10: whatever the list of paths, also one that names a path more than once,
\* the pairs compared are unordered pairs without repetition: no file is
\* paired with itself and no pair {a, b} is compared twice, in either order.
C10_ParesSinRepeticion ==
    \A k \in 1..Len(comparadas) :
        /\ comparadas[k].archivo_a # comparadas[k].archivo_b
        /\ \A l \in 1..Len(comparadas) : l # k => ParDe(l) # ParDe(k)

\* comparar_archivos has returned a list
Devolvio == retorno \in {"vacia", "resultados"}

\* the names of the two files of each record of a list
ParesDe(lista) == [k \in 1..Len(lista) |-> <<lista[k].archivo_a, lista[k].archivo_b>>]

\* the largest of the three scores of a scored pair is at least the threshold
Pasa(c) ==
    \/ FLe(threshold, c.cosine)
    \/ FLe(threshold, c.jaccard)
    \/ FLe(threshold, c.levenshtein)

MaxDe(c) == FMax(c.cosine, FMax(c.jaccard, c.levenshtein))

Umbral07 == FDiv(FFromInt(7), FFromInt(10))
Umbral08 == FDiv(FFromInt(8), FFromInt(10))

\* C11: a scored pair is in the list comparar_archivos returns if and only if
\* the largest of its three scores is >= threshold; a pair whose largest score
\* equals the threshold is kept, with threshold 0.0 every scored pair is kept,
\* and three files of which one pair reaches 0.7 give one record at 0.7.
C11_Umbral ==
    Devolvio =>
        /\ ParesDe(resultados) = ParesDe(SelectSeq(comparadas, Pasa))
        /\ \A k \in 1..Len(comparadas) :
              MaxDe(comparadas[k]) = threshold =>
                  <<comparadas[k].archivo_a, comparadas[k].archivo_b>> \in Range(ParesDe(resultados))
        /\ threshold = FZero => Len(resultados) = Len(comparadas)
        /\ (threshold = Umbral07 /\ Len(archivos) = 3
                /\ Range(archivos) = {"a.py", "b.py", "c.py"}) =>
              /\ Len(resultados) = 1
              /\ {resultados[1].archivo_a, resultados[1].archivo_b} = {"a.py", "b.py"}

C11_Witness ==
    /\ Devolvio
    /\ threshold = Umbral08
    /\ archivos = <<"a.py", "c.py", "b.py">>
    /\ Len(comparadas) = 3
    /\ MaxDe(comparadas[2]) = threshold
    /\ ParesDe(resultados) = << <<"a.py", "b.py">> >>

EsApto(n) == Disco[n].valido /\ Disco[n].tokens # <<>>

\* the pairs of positions 1..n, the first position fixed while the second runs
\* over the later ones, then the first advanced
RECURSIVE ParesEnOrden(_, _, _)
ParesEnOrden(x, y, n) ==
    IF x >= n THEN <<>>
    ELSE IF y > n THEN ParesEnOrden(x + 1, x + 2, n)
    ELSE << <<x, y>> >> \o ParesEnOrden(x, y + 1, n)

\* the pairs of names the input order gives
ParesEsperados ==
    LET v  == SelectSeq(archivos, EsApto)
        ps == ParesEnOrden(1, 2, Len(v))
    IN  [k \in 1..Len(ps) |-> <<v[ps[k][1]], v[ps[k][2]]>>]

\* s can be had from t by removing elements
RECURSIVE EsSubsecuencia(_, _)
EsSubsecuencia(s, t) ==
    IF s = <<>> THEN TRUE
    ELSE IF t = <<>> THEN FALSE
    ELSE IF Head(s) = Head(t) THEN EsSubsecuencia(Tail(s), Tail(t))
    ELSE EsSubsecuencia(s, Tail(t))

\* C12: the records come in the enumeration order the input order gives: for
\* the valid files f1..fN in input order a record (fi, fj) has i < j and
\* comes before (fk, fl) iff i < k or (i = k and j < l); the threshold removes
\* records without reordering them, and the list is a function of the input.
C12_Orden ==
    /\ ParesDe(comparadas) = SubSeq(ParesEsperados, 1, Len(comparadas))
    /\ EsSubsecuencia(ParesDe(resultados), ParesDe(comparadas))
    /\ Devolvio => ParesDe(comparadas) = ParesEsperados

C12_Witness ==
    /\ Devolvio
    /\ archivos = <<"c.py", "a.py", "b.py">>
    /\ threshold = FZero
    /\ ParesDe(resultados) = << <<"c.py", "a.py">>, <<"c.py", "b.py">>, <<"a.py", "b.py">> >>

\* C13: with fewer than two files left after validation and tokenization
\* comparar_archivos returns None, having scored no pair, built no result
\* list, computed no statistics and written no report; main then exits with
\* a status other than 0.
C13_FaltanArchivos ==
    /\ (retorno # "pendiente" /\ NAptos < 2) =>
          /\ retorno = "None"
          /\ comparadas = <<>> /\ resultados = <<>>
          /\ estadisticas = <<>> /\ guardados = 0
    /\ retorno = "None" => NAptos < 2
    /\ (pc = "salida" /\ retorno = "None") => salida # 0

C13_Witness ==
    /\ pc = "salida"
    /\ llamador = "main"
    /\ Len(archivos) = 3 /\ NAptos = 1
    /\ retorno = "None"
    /\ salida = 1

\* ---------------------------------------------------------------------
\* Properties of generar_estadisticas
\* ---------------------------------------------------------------------
Columna(f) == [k \in 1..Len(resultados) |-> resultados[k][f]]

\* v is the least (greatest) value of a column
EsMinimo(v, xs) == v \in Range(xs) /\ \A k \in 1..Len(xs) : FLe(v, xs[k])
EsMaximo(v, xs) == v \in Range(xs) /\ \A k \in 1..Len(xs) : FLe(xs[k], v)

\* C14: generar_estadisticas returns an empty mapping for an empty list; for a
\* non-empty list it returns per metric the minimum, the arithmetic mean and
\* the maximum of the metric's column, with min <= mean <= max, and a total
\* equal to the number of records.
C14_Estadisticas ==
    pc = "est_fin" =>
        IF resultados = <<>> THEN estadisticas = <<>>
        ELSE /\ estadisticas.total_comparaciones = Len(resultados)
             /\ EsMinimo(estadisticas.cosine_min, Columna("cosine"))
             /\ EsMaximo(estadisticas.cosine_max, Columna("cosine"))
             /\ EsMinimo(estadisticas.jaccard_min, Columna("jaccard"))
             /\ EsMaximo(estadisticas.jaccard_max, Columna("jaccard"))
             /\ EsMinimo(estadisticas.levenshtein_min, Columna("levenshtein"))
             /\ EsMaximo(estadisticas.levenshtein_max, Columna("levenshtein"))
             /\ estadisticas.cosine_promedio =
                    FDiv(FSum(Columna("cosine")), FFromInt(Len(resultados)))
             /\ estadisticas.jaccard_promedio =
                    FDiv(FSum(Columna("jaccard")), FFromInt(Len(resultados)))
             /\ estadisticas.levenshtein_promedio =
                    FDiv(FSum(Columna("levenshtein")), FFromInt(Len(resultados)))
             /\ FLe(estadisticas.cosine_min, estadisticas.cosine_promedio)
             /\ FLe(estadisticas.cosine_promedio, estadisticas.cosine_max)
             /\ FLe(estadisticas.jaccard_min, estadisticas.jaccard_promedio)
             /\ FLe(estadisticas.jaccard_promedio, estadisticas.jaccard_max)
             /\ FLe(estadisticas.levenshtein_min, estadisticas.levenshtein_promedio)
             /\ FLe(estadisticas.levenshtein_promedio, estadisticas.levenshtein_max)

ClavesMean ==
    {"cosine_mean", "cosine_min", "cosine_max", "jaccard_mean", "jaccard_min", "jaccard_max",
     "levenshtein_mean", "levenshtein_min", "levenshtein_max"}

\* C15 as stated: for a non-empty list the keys of the mapping are
\* <metric>_mean, <metric>_min, <metric>_max for the three metrics and one
\* key for the total: the mean of a metric is stored under <metric>_mean.
C15_ClavesMean ==
    (pc = "est_fin" /\ resultados # <<>>) =>
        /\ ClavesMean \subseteq DOMAIN estadisticas
        /\ Cardinality(DOMAIN estadisticas) = Cardinality(ClavesMean) + 1

\* C15 amended: for a non-empty list the keys of the mapping are
\* <metric>_promedio, <metric>_min, <metric>_max for the three metrics and
\* total_comparaciones: the mean of a metric is stored under <metric>_promedio.
C15_ClavesPromedio ==
    (pc = "est_fin" /\ resultados # <<>>) =>
        DOMAIN estadisticas =
            {"cosine_promedio", "cosine_min", "cosine_max",
             "jaccard_promedio", "jaccard_min", "jaccard_max",
             "levenshtein_promedio", "levenshtein_min", "levenshtein_max",
             "total_comparaciones"}

C15_Witness ==
    /\ pc = "est_fin"
    /\ Len(resultados) = 2
    /\ "cosine_promedio" \in DOMAIN estadisticas
    /\ estadisticas.total_comparaciones = 2

\* ---------------------------------------------------------------------
\* Properties of limpiar_codigo
\* ---------------------------------------------------------------------
Limpio == pc = "limpio"
EnBlanco(s) == \A k \in 1..Len(s) : s[k] \in Espacios
PrimerCaracter(s) == s[CHOOSE k \in 1..Len(s) : s[k] \notin Espacios /\ \A l \in 1..(k - 1) : s[l] \in Espacios]

\* C16 as stated: limpiar_codigo returns an empty token list only for empty or
\* whitespace-only input: every text with a character that is not white
\* space gives, for every language tag, a non-empty token list.
C16_VacioSoloEnBlanco ==
    Limpio => (tokens_limpios = <<>> <=> EnBlanco(texto))

\* C16 amended: limpiar_codigo returns an empty token list for empty or
\* whitespace-only input, and a non-empty one, for every language tag, for
\* every text whose first character that is not white space is a letter, a
\* digit, an underscore or one of the symbols = + - * < > : . , ( ) { } [ ] ;
\* (other texts, such as a comment alone, may give an empty list).
C16_VacioYNoVacio ==
    Limpio =>
        /\ EnBlanco(texto) => tokens_limpios = <<>>
        /\ (~EnBlanco(texto)
               /\ PrimerCaracter(texto) \in Letras \cup Digitos \cup {"_"} \cup (Simbolos \ {"/"})) =>
              tokens_limpios # <<>>

C16_Witness ==
    /\ Limpio
    /\ texto = <<"=", "#", "x">>
    /\ lenguaje = "python"
    /\ tokens_limpios = << <<"=">> >>

Centinela == Lower(STRING_LITERAL)

\* one quoted literal on one line: a quote, characters other than that quote
\* and the line break, the same quote
EsLiteral(s) ==
    /\ Len(s) >= 2
    /\ s[1] \in {"\"", "'"}
    /\ s[Len(s)] = s[1]
    /\ \A k \in 2..(Len(s) - 1) : s[k] # s[1] /\ s[k] # "\n"

\* one triple-quoted literal
EsLiteralTriple(s) ==
    /\ Len(s) >= 6
    /\ SubSeq(s, 1, 3) \in {Comilla3, Apostrofo3}
    /\ SubSeq(s, Len(s) - 2, Len(s)) = SubSeq(s, 1, 3)
    /\ \A k \in 4..(Len(s) - 3) : s[k] \notin {"\"", "'"}

\* C17: every quoted string literal is replaced by exactly one sentinel token,
\* whatever its content (a comment marker, the other quote) and its quote
\* style (single, double, triple): a text that is one literal gives the
\* sentinel alone, so two such texts give the same token list.
C17_LiteralCentinela ==
    (Limpio /\ (EsLiteral(texto) \/ EsLiteralTriple(texto))) =>
        tokens_limpios = <<Centinela>>

KeywordTokens == {KEYWORD_ \o Upper(w) : w \in PYTHON_KEYWORDS}

\* a text of letters, underscores and white space only
SoloPalabras(s) == \A k \in 1..Len(s) : s[k] \in Letras \cup {"_"} \cup Espacios

\* the words of such a text
RECURSIVE Palabras(_)
Palabras(s) ==
    IF LStrip(s) = <<>> THEN <<>>
    ELSE LET r == LStrip(s)
             n == CHOOSE m \in 1..Len(r) :
                     /\ \A l \in 1..m : r[l] \notin Espacios
                     /\ (m < Len(r) => r[m + 1] \in Espacios)
         IN  <<SubSeq(r, 1, n)>> \o Palabras(SubSeq(r, n + 1, Len(r)))

Etiquetar(w) == IF Lower(w) \in PYTHON_KEYWORDS THEN KEYWORD_ \o Upper(w) ELSE Lower(w)

\* C18: a piece that is a reserved word in any spelling of case (def, DEF,
\* Def) is emitted as the one tagged token KEYWORD_ + the word in upper case,
\* every other piece in lower case, and no ordinary token equals a keyword
\* token, not even an identifier spelled like the tag (keyword_def).
C18_Keywords ==
    Limpio =>
        /\ \A k \in 1..Len(tokens_limpios) :
              \/ tokens_limpios[k] \in KeywordTokens
              \/ /\ Lower(tokens_limpios[k]) = tokens_limpios[k]
                 /\ tokens_limpios[k] \notin PYTHON_KEYWORDS
        /\ SoloPalabras(texto) =>
              tokens_limpios = [k \in 1..Len(Palabras(texto)) |-> Etiquetar(Palabras(texto)[k])]

C18_Witness ==
    /\ Limpio
    /\ texto = KEYWORD_ \o <<"D", "E", "F", " ", "d", "e", "f", " ", "D", "E", "F">>
    /\ tokens_limpios = <<Lower(KEYWORD_ \o <<"D", "E", "F">>), KEYWORD_ \o <<"D", "E", "F">>,
                          KEYWORD_ \o <<"D", "E", "F">>>>

\* the runs of white space a run may be replaced by
Recambios == {<<" ">>, <<"\t", " ">>, <<"\n">>, <<"\n", " ">>}

\* the texts had from s by replacing every run of white space by one of Recambios
RECURSIVE VariantesEspacio(_)
VariantesEspacio(s) ==
    IF s = <<>> THEN {<<>>}
    ELSE IF Head(s) \in Espacios
         THEN {r \o v : r \in Recambios, v \in VariantesEspacio(LStrip(s))}
         ELSE {<<Head(s)>> \o v : v \in VariantesEspacio(Tail(s))}

\* per run of white space of s, whether it holds a line break
RECURSIVE Saltos(_)
Saltos(s) ==
    IF s = <<>> THEN <<>>
    ELSE IF Head(s) \in Espacios
         THEN <<"\n" \in Range(SubSeq(s, 1, Len(s) - Len(LStrip(s))))>> \o Saltos(LStrip(s))
         ELSE Saltos(Tail(s))

\* s holds a line-comment marker of the language
ConComentarioDeLinea(s, leng) ==
    \/ leng = "python" /\ "#" \in Range(s)
    \/ leng \in LenguajesC /\ Buscar(s, <<"/", "/">>, 1) > 0

\* two texts give the same tokens, hence the same flattened text with ratio 1.0
MismosTokens(s, t) ==
    /\ limpiar_codigo(s, lenguaje) = limpiar_codigo(t, lenguaje)
    /\ ratio_levenshtein(Join(limpiar_codigo(s, lenguaje)), Join(limpiar_codigo(t, lenguaje))) = FOne

\* C19 as stated: two texts that differ only in white space (every run of
\* white space replaced by another run, a line break by a space included)
\* give the same token list, so the Levenshtein ratio of their flattened
\* texts is 1.0.
C19_EspaciosIndiferentes ==
    Limpio => \A v \in VariantesEspacio(texto) : MismosTokens(texto, v)

\* C19 amended: two texts that differ only in white space give the same token
\* list, and a Levenshtein ratio of 1.0, if every run keeps whether it holds
\* a line break or if the texts hold no line-comment marker of the language
\* (# for python, // for the C-style languages).
C19_EspaciosSalvoComentarios ==
    Limpio =>
        \A v \in VariantesEspacio(texto) :
            (Saltos(v) = Saltos(texto) \/ ~ConComentarioDeLinea(texto, lenguaje)) =>
                MismosTokens(texto, v)

C19_Witness ==
    /\ Limpio
    /\ texto = <<"x", "\n", "x">>
    /\ lenguaje = "python"
    /\ tokens_limpios = limpiar_codigo(<<"x", "\t", " ", "x">>, "python")
    /\ Len(tokens_limpios) = 2

\* ---------------------------------------------------------------------
\* The rolling rows of distancia_levenshtein
\* ---------------------------------------------------------------------
EnBucle == pc \in {"lev_externo", "lev_interno"}
MinLong == IF Len(tokens1) <= Len(tokens2) THEN Len(tokens1) ELSE Len(tokens2)
Prefijo(s, n) == SubSeq(s, 1, n)

\* row n of the full matrix: the distances of the first n characters of a to every prefix of b
EsFila(row, n) ==
    /\ Len(row) = Len(b) + 1
    /\ \A k \in 0..Len(b) : row[k + 1] = LevRef(Prefijo(a, n), Prefijo(b, k))

\* C20: distancia_levenshtein keeps two rolling rows as wide as the shorter
\* operand: after the swap a is the longer operand, in every state of the loop
\* prev_row and curr_row have at most min(len(a), len(b)) + 1 cells, and once
\* the outer loop has processed the first i characters of the longer string
\* prev_row[j] is the edit distance of those i characters to the first j
\* characters of the shorter string, for every j in 0..min(len(a), len(b));
\* within a pass the cells of curr_row computed so far are those of row i + 1.
C20_FilasRodantes ==
    EnBucle =>
        /\ Len(b) = MinLong /\ Len(a) = MaxLong
        /\ Len(prev_row) <= MinLong + 1
        /\ Len(curr_row) <= MinLong + 1
        /\ EsFila(prev_row, i)
        /\ (pc = "lev_interno" =>
                /\ Len(curr_row) = j + 1
                /\ \A k \in 0..j : curr_row[k + 1] = LevRef(Prefijo(a, i + 1), Prefijo(b, k)))

C20_Witness ==
    /\ pc = "lev_externo"
    /\ tokens1 = kitten /\ tokens2 = sitting
    /\ a = sitting /\ b = kitten
    /\ i = 3
    /\ prev_row = <<3, 3, 2, 1, 2, 3, 4>>
    /\ Len(curr_row) = Len(kitten) + 1

\* ---------------------------------------------------------------------
\* Termination of distancia_levenshtein
\* ---------------------------------------------------------------------
\* the calls of distancia_levenshtein made so far for one top-level call: the
\* top-level one, and at most one more with the operands swapped, made only
\* when the first operand is the shorter one; a call that has passed line 223
\* has the longer operand first
RecursionAcotada ==
    /\ llamadas \in 0..2
    /\ (llamadas = 2 => Len(tokens1) < Len(tokens2) /\ a = tokens2 /\ b = tokens1)
    /\ (llamadas = 1 /\ pc # "lev_entrada" => ~(Len(tokens1) < Len(tokens2)) /\ a = tokens1 /\ b = tokens2)
    /\ (llamadas >= 1 /\ Len(tokens1) = Len(tokens2) => llamadas = 1)
    /\ (llamadas = 2 => ~DebeIntercambiar(a, b))

\* C21: distancia_levenshtein terminates for every pair of strings and its
\* operand-swap recursion is bounded: it calls itself at most once per
\* top-level call, only when len(a) < len(b); the swapped call never calls
\* again, and strings of equal length are never swapped.
C21_Termina ==
    /\ []RecursionAcotada
    /\ (pc = "lev_entrada" /\ llamadas = 1) ~> (pc = "lev_retorno")

C21_Witness ==
    /\ pc = "lev_retorno"
    /\ llamadas = 2
    /\ tokens1 = kitten /\ tokens2 = sitting
    /\ a = sitting /\ b = kitten
    /\ dist = 3

\* ---------------------------------------------------------------------
\* The stored scores and the threshold
\* ---------------------------------------------------------------------
\* the largest of the three scores a record holds
MaxGuardado(r) == FMax(r.cosine, FMax(r.jaccard, r.levenshtein))

\* C22: every record of the list comparar_archivos returns satisfies the
\* threshold on its own stored scores: the largest of its three scores, as
\* rounded to 4 decimal places, is >= threshold, for every threshold in [0, 1].
C22_UmbralGuardado ==
    Devolvio /\ UmbralValido(threshold) =>
        \A k \in 1..Len(resultados) : FLe(threshold, MaxGuardado(resultados[k]))

\* ---------------------------------------------------------------------
\* Statistics and report at the end of comparar_archivos
\* ---------------------------------------------------------------------
\* the number of pairs combinations(archivos_validos, 2) yields
NPares == (Len(archivos_validos) * (Len(archivos_validos) - 1)) \div 2

\* every pair has been compared
TodasComparadas == Len(comparadas) = NPares

\* no compared pair reaches the threshold
NingunaPasa == \A k \in 1..Len(comparadas) : ~Pasa(comparadas[k])

\* C23: with at least two valid files and no pair reaching the threshold,
\* comparar_archivos returns an empty list (not None), generar_estadisticas and
\* guardar_resultados are not called, and main ends without a non-zero exit
\* status; with at least one pair retained, generar_estadisticas is applied
\* to the whole retained list and guardar_resultados is called exactly once,
\* after all pairs have been compared.
C23_FinDeComparacion ==
    /\ guardados \in 0..1
    /\ (guardados = 1 => TodasComparadas /\ retorno = "resultados")
    /\ (pc \in {"fin", "salida"} /\ Len(archivos_validos) >= 2 => TodasComparadas)
    /\ (pc \in {"fin", "salida"} /\ Len(archivos_validos) >= 2 /\ NingunaPasa =>
            /\ retorno = "vacia"
            /\ resultados = <<>>
            /\ estadisticas = <<>>
            /\ guardados = 0
            /\ (pc = "salida" => salida = 0))
    /\ (pc \in {"fin", "salida"} /\ Len(archivos_validos) >= 2 /\ ~NingunaPasa =>
            /\ retorno = "resultados"
            /\ resultados # <<>>
            /\ estadisticas = generar_estadisticas(resultados)
            /\ guardados = 1
            /\ (pc = "salida" => salida = 0))

C23_Witness ==
    /\ pc = "salida" /\ llamador = "main"
    /\ archivos = <<"a.py", "b.py", "c.py">>
    /\ threshold = FOne
    /\ TodasComparadas /\ Len(comparadas) = 3
    /\ retorno = "vacia" /\ guardados = 0 /\ salida = 0

====
